---- MODULE Spec2Model ----
(***************************************************************************)
(* The Service Catalog registry of moto/servicecatalog/models.py           *)
(* (ServiceCatalogBackend and its entities) as a state machine.            *)
(*                                                                         *)
(* The five collections are Python dicts, which keep insertion order: each *)
(* is a sequence of entity records, in insertion order.  Identifiers are   *)
(* "<prefix>-<12 random letters>"; the model draws them fresh, as the      *)
(* number of entities of the kind built so far plus one, so that 0 is an   *)
(* identifier no collection holds (the default "" and None included).      *)
(*                                                                         *)
(* Every method of the backend is an operator of the same name: it takes   *)
(* the registry (self) and the request's arguments and gives the exception *)
(* raised ("none" when the method returns), the value returned and the     *)
(* registry as the method leaves it.  A request is served to completion    *)
(* before the next one: an action applies one method to the state.         *)
(*                                                                         *)
(* models.py imports ProvisionedProductNotFound and RecordNotFound from    *)
(* exceptions.py, which defines neither, so the module as it stands does   *)
(* not import.  The model is of the backend with two classes of these      *)
(* names supplied: they matter only where a method raises them.            *)
(***************************************************************************)
EXTENDS Naturals, Sequences, FiniteSets

VARIABLES
    portfolios,            \* self.portfolios
    products,              \* self.products
    provisioned_products,  \* self.provisioned_products
    records,               \* self.records
    constraints,           \* self.constraints
    tagger,                \* self.tagger: the set of <<arn, tag key>> attached
    products_made          \* Product objects built so far, stored or not

vars == <<portfolios, products, provisioned_products, records, constraints,
          tagger, products_made>>

\* The registry in the current state.
Registry ==
    [portfolios |-> portfolios, products |-> products,
     provisioned_products |-> provisioned_products, records |-> records,
     constraints |-> constraints, tagger |-> tagger,
     products_made |-> products_made]

(***************************************************************************)
(* Bounds of the model and the sets the requests' arguments are drawn from *)
(***************************************************************************)
MaxPortfolios == 2
MaxProducts == 2
MaxProvisioned == 2
MaxRecords == 3
MaxConstraints == 1
MaxEntities == 3
MaxTags == 3
MaxPairConstraints == 2

Names == {"", "a"}
Owners == {"o1", "o2"}
ProductTypes == {"CLOUD_FORMATION_TEMPLATE"}
ArtifactNames == {"v1"}
ConstraintTypes == {"LAUNCH", "NOTIFICATION"}
TagInputs == {{"env"}}
ResourceTags == {{"env"}, {"k2"}}
InfoKinds == {"url_ok", "url_fails", "no_url"}

\* What the registry has built: the bound the model puts on a run.
Size(self) ==
    Len(self.portfolios) + self.products_made + Len(self.constraints)
        + Len(self.provisioned_products)

\* The registry holds one portfolio and one product at most, nothing
\* provisioned, and constraints for that pair only: the case of a pair with
\* several constraints.
PairCase(self) ==
    /\ Len(self.portfolios) <= 1
    /\ self.products_made <= 1
    /\ Len(self.provisioned_products) = 0
    /\ Len(self.constraints) <= MaxPairConstraints
    /\ \A i \in DOMAIN self.constraints :
          /\ self.constraints[i].product_id # 0
          /\ self.constraints[i].portfolio_id # 0

\* A run stays within the general bound on what is built, or within the
\* case of one pair with several constraints.
WithinBounds(self) ==
    /\ Len(self.portfolios) <= MaxPortfolios
    /\ self.products_made <= MaxProducts
    /\ Len(self.provisioned_products) <= MaxProvisioned
    /\ Len(self.records) <= MaxRecords
    /\ Cardinality(self.tagger) <= MaxTags
    /\ \/ Len(self.constraints) <= MaxConstraints /\ Size(self) <= MaxEntities
       \/ PairCase(self)

(***************************************************************************)
(* Helpers                                                                 *)
(***************************************************************************)
Min(S) == CHOOSE x \in S : \A y \in S : x <= y

Max(S) == CHOOSE x \in S : \A y \in S : x >= y

\* The first position among hits, 0 when there is none:
\* "for key, value in d.items(): if ...: return value".
First(hits) == IF hits = {} THEN 0 ELSE Min(hits)

\* The last position among hits, 0 when there is none:
\* "for key, value in reversed(d.items()): if ...: return value".
Last(hits) == IF hits = {} THEN 0 ELSE Max(hits)

\* The method raised err, leaving the registry as self.
Raise(self, err) == [err |-> err, out |-> <<>>, self |-> self]

\* The method returned out, leaving the registry as self.
Return(self, out) == [err |-> "none", out |-> out, self |-> self]

Arn(kind, id) == <<kind, id>>

\* ServiceCatalogBackend.tag_resource: every key of tags is attached to arn.
tag_resource(self, arn, tags) ==
    [self EXCEPT !.tagger = @ \cup {<<arn, k>> : k \in tags}]

\* ServiceCatalogBackend.get_tags
get_tags(self, arn) == {t[2] : t \in {u \in self.tagger : u[1] = arn}}

(***************************************************************************)
(* Lookup by identifier or name.  Each gives the position of the entity in *)
(* its collection, 0 standing for the NotFound exception it raises.        *)
(***************************************************************************)
\* _get_product without its scan by name.
_get_product_by_id_only(self, identifier, name) ==
    First({i \in DOMAIN self.products :
             self.products[i].product_id = identifier})

_get_product(self, identifier, name) ==
    LET byId == First({i \in DOMAIN self.products :
                         self.products[i].product_id = identifier})
    IN IF byId # 0 THEN byId
       ELSE First({i \in DOMAIN self.products : self.products[i].name = name})

\* _get_portfolio without its scan by display name.
_get_portfolio_by_id_only(self, identifier, name) ==
    First({i \in DOMAIN self.portfolios :
             self.portfolios[i].portfolio_id = identifier})

_get_portfolio(self, identifier, name) ==
    LET byId == First({i \in DOMAIN self.portfolios :
                         self.portfolios[i].portfolio_id = identifier})
    IN IF byId # 0 THEN byId
       ELSE First({i \in DOMAIN self.portfolios :
                     self.portfolios[i].display_name = name})

_get_provisioned_product(self, identifier, name) ==
    LET pps == self.provisioned_products
        byId == First({i \in DOMAIN pps :
                         pps[i].provisioned_product_id = identifier})
    IN IF byId # 0 THEN byId
       ELSE First({i \in DOMAIN pps : pps[i].name = name})

(***************************************************************************)
(* Creation operations                                                     *)
(***************************************************************************)
\* Portfolio.__init__: a fresh id, no linked product, one launch path.
Portfolio(id, display_name) ==
    [portfolio_id |-> id, display_name |-> display_name,
     product_ids |-> <<>>, launch_path |-> id]

create_portfolio(self, display_name, tags) ==
    IF _get_portfolio(self, 0, display_name) # 0
    THEN Raise(self, "InvalidParametersException")
    ELSE LET id == Len(self.portfolios) + 1
             arn == Arn("portfolio", id)
             built == tag_resource(self, arn, tags)
             stored == [built EXCEPT
                           !.portfolios = Append(@, Portfolio(id, display_name))]
         IN Return(stored, [Id |-> id, DisplayName |-> display_name,
                            Tags |-> get_tags(stored, arn)])

\* ProvisioningArtifact.__init__, as Product._create_provisioning_artifact
\* builds it: the artifact's id is drawn with its product's.
ProvisioningArtifact(id, name, template) ==
    [provisioning_artifact_id |-> id, name |-> name, active |-> TRUE,
     template |-> template]

\* Product.__init__ followed by the artifact Product._create_provisioning_artifact
\* stores in it.
Product(id, name, owner, product_type, artifact_name) ==
    [product_id |-> id, name |-> name, owner |-> owner,
     product_type |-> product_type, status |-> "AVAILABLE",
     provisioning_artifacts |->
         <<ProvisioningArtifact(id, artifact_name, "template body")>>]

\* Product._create_provisioning_artifact: the exception it ends with, "none"
\* when the artifact is built.  info is what the Info payload holds:
\* LoadTemplateFromURL with a template the Template Loader fetches ("url_ok")
\* or fails to fetch ("url_fails"), or no LoadTemplateFromURL ("no_url"), and
\* then the local `template` is never bound and the read of it raises.
_create_provisioning_artifact(info) ==
    CASE info = "url_ok" -> "none"
      [] info = "url_fails" -> "TemplateLoadError"
      [] OTHER -> "UnboundLocalError"

create_product(self, name, owner, product_type, tags, artifact_name, info) ==
    IF _get_product(self, 0, name) # 0
    THEN Raise(self, "InvalidParametersException")
    ELSE LET id == self.products_made + 1
             arn == Arn("product", id)
             built == [tag_resource(self, arn, tags) EXCEPT
                          !.products_made = id]
             err == _create_provisioning_artifact(info)
             stored == [built EXCEPT
                           !.products = Append(@,
                               Product(id, name, owner, product_type,
                                       artifact_name))]
         IN IF err # "none" THEN Raise(built, err)
            ELSE Return(stored, [ProductId |-> id, Name |-> name,
                                 ProvisioningArtifactId |-> id,
                                 Tags |-> get_tags(stored, arn)])

\* Constraint.__init__
Constraint(id, constraint_type, product_id, portfolio_id) ==
    [constraint_id |-> id, constraint_type |-> constraint_type,
     product_id |-> product_id, portfolio_id |-> portfolio_id]

create_constraint(self, portfolio_id, product_id, constraint_type) ==
    LET id == Len(self.constraints) + 1
        stored == [self EXCEPT
                      !.constraints = Append(@,
                          Constraint(id, constraint_type, product_id,
                                     portfolio_id))]
    IN Return(stored, [ConstraintId |-> id, Type |-> constraint_type,
                       ProductId |-> product_id, PortfolioId |-> portfolio_id,
                       Status |-> "AVAILABLE"])

\* Portfolio.has_product
has_product(portfolio, product_id) ==
    \E i \in DOMAIN portfolio.product_ids : portfolio.product_ids[i] = product_id

\* link_product without its membership test.
link_product_unchecked(portfolio, product_id) ==
    [portfolio EXCEPT !.product_ids = Append(@, product_id)]

\* Portfolio.link_product
link_product(portfolio, product_id) ==
    IF ~has_product(portfolio, product_id)
    THEN [portfolio EXCEPT !.product_ids = Append(@, product_id)]
    ELSE portfolio

associate_product_with_portfolio(self, product_id, portfolio_id) ==
    LET prod == _get_product(self, product_id, "")
        port == _get_portfolio(self, portfolio_id, "")
    IN IF prod = 0 THEN Raise(self, "ProductNotFound")
       ELSE IF port = 0 THEN Raise(self, "PortfolioNotFound")
       ELSE Return([self EXCEPT !.portfolios[port] =
                       link_product(@, self.products[prod].product_id)], <<>>)

update_portfolio(self, identifier, display_name) ==
    LET port == _get_portfolio(self, identifier, "")
    IN IF port = 0 THEN Raise(self, "PortfolioNotFound")
       ELSE Return([self EXCEPT !.portfolios[port].display_name = display_name],
                   [Id |-> self.portfolios[port].portfolio_id,
                    DisplayName |-> display_name])

update_product(self, identifier, name) ==
    LET prod == _get_product(self, identifier, "")
    IN IF prod = 0 THEN Raise(self, "ProductNotFound")
       ELSE Return([self EXCEPT !.products[prod].name = name],
                   [ProductId |-> self.products[prod].product_id,
                    Name |-> name])

(***************************************************************************)
(* Provisioning workflow                                                   *)
(***************************************************************************)
\* Product.get_provisioning_artifact: the position of the artifact in the
\* product's provisioning_artifacts, 0 standing for the None it returns when
\* neither the id nor the name matches.
get_provisioning_artifact(product, artifact_id, artifact_name) ==
    LET arts == product.provisioning_artifacts
        byId == First({i \in DOMAIN arts :
                         arts[i].provisioning_artifact_id = artifact_id})
    IN IF byId # 0 THEN byId
       ELSE First({i \in DOMAIN arts : arts[i].name = artifact_name})

\* ProvisionedProduct.__init__: the three record pointers start as None (0).
ProvisionedProduct(id, name, product_id, provisioning_artifact_id) ==
    [provisioned_product_id |-> id, name |-> name, product_id |-> product_id,
     provisioning_artifact_id |-> provisioning_artifact_id,
     path_id |-> "TODO: paths", record_type |-> "PROVISION_PRODUCT",
     status |-> "SUCCEEDED", last_record_id |-> 0,
     last_provisioning_record_id |-> 0,
     last_successful_provisioning_record_id |-> 0]

\* Record.__init__
Record(id, product_id, pp_id, pp_name, artifact_id, record_type) ==
    [record_id |-> id, product_id |-> product_id,
     provisioned_product_id |-> pp_id,
     provisioned_product_name |-> pp_name,
     provisioning_artifact_id |-> artifact_id,
     record_type |-> record_type, status |-> "CREATED"]

\* Record.to_record_detail_json
to_record_detail_json(record) ==
    [RecordId |-> record.record_id,
     ProvisionedProductId |-> record.provisioned_product_id,
     ProductId |-> record.product_id,
     RecordType |-> record.record_type,
     ProvisionedProductName |-> record.provisioned_product_name,
     ProvisioningArtifactId |-> record.provisioning_artifact_id,
     Status |-> record.status]

\* The assignments with the one to last_record_id left out.
set_provisioning_records_only(provisioned_product, record_id) ==
    [provisioned_product EXCEPT
        !.last_successful_provisioning_record_id = record_id,
        !.last_provisioning_record_id = record_id]

\* The three assignments that follow the storing of a record, in
\* provision_product and in terminate_provisioned_product.
set_last_record(provisioned_product, record_id) ==
    [provisioned_product EXCEPT
        !.last_record_id = record_id,
        !.last_successful_provisioning_record_id = record_id,
        !.last_provisioning_record_id = record_id]

\* provision_product from the building of the ProvisionedProduct on: it is
\* built (and tagged) and stored.
store_provisioned_product(self, product, artifact, pp_name, tags) ==
    LET pp_id == Len(self.provisioned_products) + 1
    IN [tag_resource(self, Arn("stack", pp_id), tags) EXCEPT
           !.provisioned_products = Append(@,
               ProvisionedProduct(pp_id, pp_name, product.product_id,
                                  artifact.provisioning_artifact_id))]

\* The record put in front of the stored ones instead of after them.
store_provision_record_in_front(self, product, artifact, pp_name) ==
    LET pp == Len(self.provisioned_products)
        record == Record(Len(self.records) + 1, product.product_id,
                         self.provisioned_products[pp].provisioned_product_id,
                         pp_name, artifact.provisioning_artifact_id,
                         "PROVISION_PRODUCT")
    IN Return([self EXCEPT
                  !.records = <<record>> \o @,
                  !.provisioned_products[pp] =
                      set_last_record(@, record.record_id)],
              to_record_detail_json(record))

\* provision_product after the provisioned product is stored (as the last of
\* self.provisioned_products): the record is built and stored, and the three
\* pointers are set to it.
store_provision_record(self, product, artifact, pp_name) ==
    LET pp == Len(self.provisioned_products)
        record == Record(Len(self.records) + 1, product.product_id,
                         self.provisioned_products[pp].provisioned_product_id,
                         pp_name, artifact.provisioning_artifact_id,
                         "PROVISION_PRODUCT")
    IN Return([self EXCEPT
                  !.records = Append(@, record),
                  !.provisioned_products[pp] =
                      set_last_record(@, record.record_id)],
              to_record_detail_json(record))

\* provision_product as it would be with the provisioned product built and
\* stored before the stack is created: a stack that is not created leaves it.
provision_product_stores_first(self, id, name, art_id, art_name, pp_name, tags, ok) ==
    LET prod == _get_product(self, id, name)
    IN IF prod = 0 THEN Raise(self, "ProductNotFound")
       ELSE LET product == self.products[prod]
                art == get_provisioning_artifact(product, art_id, art_name)
                artifact == product.provisioning_artifacts[art]
                stored == store_provisioned_product(self, product, artifact,
                                                    pp_name, tags)
            IN IF art = 0 THEN Raise(self, "AttributeError")
               ELSE IF ~ok THEN Raise(stored, "StackProvisionerError")
               ELSE store_provision_record(stored, product, artifact, pp_name)

\* provision_product(product_id, product_name, provisioning_artifact_id,
\* provisioning_artifact_name, provisioned_product_name, tags), and ok: whether
\* create_cloudformation_stack_from_template returns a stack (TRUE) or raises
\* (FALSE), which the Stack Provisioner decides.  With no artifact found the
\* read of provisioning_artifact.template raises AttributeError.
provision_product(self, id, name, art_id, art_name, pp_name, tags, ok) ==
    LET prod == _get_product(self, id, name)
    IN IF prod = 0 THEN Raise(self, "ProductNotFound")
       ELSE LET product == self.products[prod]
                art == get_provisioning_artifact(product, art_id, art_name)
                artifact == product.provisioning_artifacts[art]
            IN IF art = 0 THEN Raise(self, "AttributeError")
               ELSE IF ~ok THEN Raise(self, "StackProvisionerError")
               ELSE store_provision_record(
                        store_provisioned_product(self, product, artifact,
                                                  pp_name, tags),
                        product, artifact, pp_name)

\* terminate_provisioned_product without its three assignments to the
\* provisioned product.
terminate_provisioned_product_keeps_pointers(self, provisioned_product_id) ==
    LET pp == First({i \in DOMAIN self.provisioned_products :
                       self.provisioned_products[i].provisioned_product_id =
                           provisioned_product_id})
    IN IF pp = 0 THEN Raise(self, "KeyError")
       ELSE LET provisioned_product == self.provisioned_products[pp]
                record ==
                    Record(Len(self.records) + 1,
                           provisioned_product.product_id,
                           provisioned_product.provisioned_product_id,
                           provisioned_product.name,
                           provisioned_product.provisioning_artifact_id,
                           "TERMINATE_PROVISIONED_PRODUCT")
            IN Return([self EXCEPT !.records = Append(@, record)],
                      to_record_detail_json(record))

\* terminate_provisioned_product: self.provisioned_products[id] raises
\* KeyError for an id that is not a key.
terminate_provisioned_product(self, provisioned_product_id) ==
    LET pp == First({i \in DOMAIN self.provisioned_products :
                       self.provisioned_products[i].provisioned_product_id =
                           provisioned_product_id})
    IN IF pp = 0 THEN Raise(self, "KeyError")
       ELSE LET provisioned_product == self.provisioned_products[pp]
                record ==
                    Record(Len(self.records) + 1,
                           provisioned_product.product_id,
                           provisioned_product.provisioned_product_id,
                           provisioned_product.name,
                           provisioned_product.provisioning_artifact_id,
                           "TERMINATE_PROVISIONED_PRODUCT")
            IN Return([self EXCEPT
                          !.records = Append(@, record),
                          !.provisioned_products[pp] =
                              set_last_record(@, record.record_id)],
                      to_record_detail_json(record))

(***************************************************************************)
(* Query operations: they leave the registry as it is.                     *)
(***************************************************************************)
\* The scan of the records from the oldest instead of from the newest.
get_first_record_for_provisioned_product(self, provisioned_product_id) ==
    LET rec == First({i \in DOMAIN self.records :
                        self.records[i].provisioned_product_id =
                            provisioned_product_id})
    IN IF rec = 0 THEN Raise(self, "Exception")
       ELSE Return(self, self.records[rec])

get_last_record_for_provisioned_product(self, provisioned_product_id) ==
    LET rec == Last({i \in DOMAIN self.records :
                       self.records[i].provisioned_product_id =
                           provisioned_product_id})
    IN IF rec = 0 THEN Raise(self, "Exception")
       ELSE Return(self, self.records[rec])

\* ProvisionedProduct.to_provisioned_product_detail_json
to_provisioned_product_detail_json(pp) ==
    [Id |-> pp.provisioned_product_id,
     Name |-> pp.name,
     ProductId |-> pp.product_id,
     ProvisioningArtifactId |-> pp.provisioning_artifact_id,
     LastRecordId |-> pp.last_record_id,
     LastProvisioningRecordId |-> pp.last_provisioning_record_id,
     LastSuccessfulProvisioningRecordId |->
         pp.last_successful_provisioning_record_id,
     Status |-> "AVAILABLE",
     Type |-> pp.record_type]

describe_provisioned_product(self, identifier, name) ==
    LET pp == _get_provisioned_product(self, identifier, name)
    IN IF pp = 0 THEN Raise(self, "ProvisionedProductNotFound")
       ELSE Return(self, to_provisioned_product_detail_json(
                             self.provisioned_products[pp]))

\* get_constraint_by with the portfolio left out of the comparison.
get_constraint_by_product(self, product_id, portfolio_id) ==
    First({i \in DOMAIN self.constraints :
             self.constraints[i].product_id = product_id})

\* ServiceCatalogBackend.get_constraint_by: the position of the first
\* constraint stored for the pair, 0 standing for the None it returns.
get_constraint_by(self, product_id, portfolio_id) ==
    First({i \in DOMAIN self.constraints :
             /\ self.constraints[i].product_id = product_id
             /\ self.constraints[i].portfolio_id = portfolio_id})

\* Constraint.to_summary_json
to_summary_json(constraint) == [Type |-> constraint.constraint_type]

\* The detail with a summary of every constraint stored for the pair instead
\* of the first one.
launch_path_detail_every_constraint(self, product, portfolio) ==
    [Id |-> portfolio.launch_path,
     Name |-> portfolio.display_name,
     ConstraintSummaries |->
         IF has_product(portfolio, product.product_id)
         THEN [i \in 1..Len(SelectSeq(self.constraints, LAMBDA c :
                        /\ c.product_id = product.product_id
                        /\ c.portfolio_id = portfolio.portfolio_id)) |->
                  to_summary_json(SelectSeq(self.constraints, LAMBDA c :
                        /\ c.product_id = product.product_id
                        /\ c.portfolio_id = portfolio.portfolio_id)[i])]
         ELSE <<>>]

\* The body of the loop of list_launch_paths: the detail built for one
\* portfolio.
launch_path_detail(self, product, portfolio) ==
    LET con == get_constraint_by(self, product.product_id,
                                 portfolio.portfolio_id)
    IN [Id |-> portfolio.launch_path,
        Name |-> portfolio.display_name,
        ConstraintSummaries |->
            IF has_product(portfolio, product.product_id) /\ con # 0
            THEN <<to_summary_json(self.constraints[con])>>
            ELSE <<>>]

list_launch_paths(self, product_id) ==
    LET prod == _get_product(self, product_id, "")
    IN IF prod = 0 THEN Raise(self, "ProductNotFound")
       ELSE Return(self, [i \in DOMAIN self.portfolios |->
                             launch_path_detail(self, self.products[prod],
                                                self.portfolios[i])])

\* Product.get_filter_value: the value of the field, or the exception raised.
get_filter_value(product, filter_name) ==
    CASE filter_name = "Owner" -> [err |-> "none", out |-> product.owner]
      [] filter_name = "ProductType" ->
             [err |-> "none", out |-> product.product_type]
      [] OTHER -> [err |-> "FilterNotImplementedError", out |-> filter_name]

\* moto.ec2.utils.is_filter_matching, for the string values a product has:
\* the value is one of the filter's values.
is_filter_matching(product, filter) ==
    get_filter_value(product, filter.field).out \in filter.values

\* moto.ec2.utils.generic_filter: the filters are applied one after the other,
\* each to the objects the ones before it kept, and each asks every object
\* left for its value of the field.  Gives the exception raised and then the
\* field it names, or "none" and the objects kept.
RECURSIVE generic_filter(_, _)
generic_filter(filters, objects) ==
    IF filters = <<>> THEN [err |-> "none", out |-> objects]
    ELSE LET filter == Head(filters)
         IN IF \E i \in DOMAIN objects :
                   get_filter_value(objects[i], filter.field).err # "none"
            THEN [err |-> "FilterNotImplementedError", out |-> filter.field]
            ELSE generic_filter(Tail(filters),
                     SelectSeq(objects,
                               LAMBDA obj : is_filter_matching(obj, filter)))

\* Product.to_product_view_detail_json()["ProductViewSummary"]
ProductViewSummary(product) ==
    [ProductId |-> product.product_id, Name |-> product.name,
     Owner |-> product.owner, Type |-> product.product_type]

\* search_products: filters is the request's dict, field -> values, as the
\* sequence of its items.
search_products(self, filters) ==
    LET kept == generic_filter(filters, self.products)
    IN IF kept.err # "none" THEN [Raise(self, kept.err) EXCEPT !.out = kept.out]
       ELSE Return(self, [i \in DOMAIN kept.out |->
                             ProductViewSummary(kept.out[i])])

(***************************************************************************)
(* The state machine                                                       *)
(***************************************************************************)
\* The filters of a search request.
Filter ==
    {[field |-> "Owner", values |-> {"o1"}],
     [field |-> "Owner", values |-> {"zz"}],
     [field |-> "ProductType", values |-> {"CLOUD_FORMATION_TEMPLATE", "zz"}],
     [field |-> "FullTextSearch", values |-> {"o1"}]}

Filters ==
    {<<>>} \cup {<<f>> : f \in Filter}
        \cup {fs \in Filter \X Filter : fs[1].field # fs[2].field}

\* The identifiers a request names a portfolio, a product or a provisioned
\* product by: the ones the registry holds, and 0 for one it does not hold
\* (identifiers are drawn at random, so one that is not held is never drawn
\* later).
PortfolioIds ==
    {0} \cup {portfolios[i].portfolio_id : i \in DOMAIN portfolios}

ProductIds ==
    {0} \cup {products[i].product_id : i \in DOMAIN products}

ProvisionedIds ==
    {0} \cup {provisioned_products[i].provisioned_product_id :
                  i \in DOMAIN provisioned_products}

\* The ARNs a tag_resource request names: those of the portfolios the
\* registry holds, and one of no entity (an ARN is a string to the method,
\* whatever it is the ARN of).
ResourceArns == {Arn("portfolio", id) : id \in PortfolioIds}

\* The (id, name) pairs a request names a product by: an id, or no id and a
\* name.
ProductRefs ==
    {<<id, "">> : id \in ProductIds} \cup {<<0, n>> : n \in Names}

\* The (id, name) pairs a request names a provisioning artifact by: an id (an
\* artifact's is its product's), or no id and a name.
ArtifactRefs ==
    {<<id, "">> : id \in ProductIds} \cup {<<0, n>> : n \in ArtifactNames}

Init ==
    /\ portfolios = <<>>
    /\ products = <<>>
    /\ provisioned_products = <<>>
    /\ records = <<>>
    /\ constraints = <<>>
    /\ tagger = {}
    /\ products_made = 0

\* The request is served: the registry becomes what the method left, whether
\* it returned or raised.
Serve(response) ==
    /\ WithinBounds(response.self)
    /\ portfolios' = response.self.portfolios
    /\ products' = response.self.products
    /\ provisioned_products' = response.self.provisioned_products
    /\ records' = response.self.records
    /\ constraints' = response.self.constraints
    /\ tagger' = response.self.tagger
    /\ products_made' = response.self.products_made

CreatePortfolio ==
    \E n \in Names, t \in TagInputs : Serve(create_portfolio(Registry, n, t))

CreateProduct ==
    \E n \in Names, o \in Owners, ty \in ProductTypes, t \in TagInputs,
       an \in ArtifactNames, info \in InfoKinds :
        Serve(create_product(Registry, n, o, ty, t, an, info))

CreateConstraint ==
    \E pf \in PortfolioIds, pr \in ProductIds, ty \in ConstraintTypes :
        Serve(create_constraint(Registry, pf, pr, ty))

AssociateProductWithPortfolio ==
    \E pr \in ProductIds, pf \in PortfolioIds :
        Serve(associate_product_with_portfolio(Registry, pr, pf))

UpdatePortfolio ==
    \E pf \in PortfolioIds, n \in Names : Serve(update_portfolio(Registry, pf, n))

UpdateProduct ==
    \E pr \in ProductIds, n \in Names : Serve(update_product(Registry, pr, n))

ProvisionProduct ==
    \E pr \in ProductRefs, ar \in ArtifactRefs, n \in Names,
       t \in TagInputs, ok \in BOOLEAN :
        Serve(provision_product(Registry, pr[1], pr[2], ar[1], ar[2], n, t, ok))

TerminateProvisionedProduct ==
    \E pp \in ProvisionedIds :
        Serve(terminate_provisioned_product(Registry, pp))

\* tag_resource called on its own: it returns None.
TagResource ==
    \E arn \in ResourceArns, t \in ResourceTags :
        Serve(Return(tag_resource(Registry, arn, t), <<>>))

Next ==
    \/ CreatePortfolio
    \/ CreateProduct
    \/ CreateConstraint
    \/ AssociateProductWithPortfolio
    \/ UpdatePortfolio
    \/ UpdateProduct
    \/ ProvisionProduct
    \/ TerminateProvisionedProduct
    \/ TagResource

Spec == Init /\ [][Next]_vars

(***************************************************************************)
(* Properties.  A property of a request is stated of the response the      *)
(* method gives in the current registry, for every request of the kind.    *)
(***************************************************************************)
\* The stored portfolios of that display name, as positions.
PortfoliosNamed(name) ==
    {i \in DOMAIN portfolios : portfolios[i].display_name = name}

\* The stored products of that name, as positions.
ProductsNamed(name) ==
    {i \in DOMAIN products : products[i].name = name}

\* C1: create_portfolio with the display name of a stored portfolio raises
\* InvalidParametersException and leaves the portfolios and the tag store
\* (and the rest of the registry) as they were.
C1_DuplicatePortfolioRejected ==
    \A n \in Names, t \in TagInputs :
        PortfoliosNamed(n) # {}
        => LET r == create_portfolio(Registry, n, t)
           IN /\ r.err = "InvalidParametersException"
              /\ r.self.portfolios = portfolios
              /\ r.self.tagger = tagger
              /\ r.self = Registry

\* C1 happens: the registry holds a tagged portfolio, and a create_portfolio
\* with its display name and a tag is rejected.
C1_Witness ==
    \E n \in Names, t \in TagInputs :
        /\ PortfoliosNamed(n) # {}
        /\ t # {}
        /\ tagger # {}
        /\ create_portfolio(Registry, n, t).err = "InvalidParametersException"

\* C2: create_product with the name of a stored product raises
\* InvalidParametersException, adds no product, and afterwards the name
\* resolves to the product (the same product id) it resolved to before.
C2_DuplicateProductRejected ==
    \A n \in Names, o \in Owners, ty \in ProductTypes, t \in TagInputs,
       an \in ArtifactNames, info \in InfoKinds :
        ProductsNamed(n) # {}
        => LET r == create_product(Registry, n, o, ty, t, an, info)
               before == _get_product(Registry, 0, n)
               after == _get_product(r.self, 0, n)
           IN /\ r.err = "InvalidParametersException"
              /\ r.self.products = products
              /\ r.self.products_made = products_made
              /\ after # 0
              /\ r.self.products[after].product_id =
                     products[before].product_id

\* C2 happens: the registry holds two products, and a create_product with the
\* name of the second is rejected.
C2_Witness ==
    /\ Len(products) = 2
    /\ \E o \in Owners, ty \in ProductTypes, t \in TagInputs,
          an \in ArtifactNames, info \in InfoKinds :
          create_product(Registry, products[2].name, o, ty, t, an, info).err
              = "InvalidParametersException"

\* C3: a provision_product whose stack is not created fails and leaves the
\* provisioned products, the records and the tag store as they were.
C3_ProvisionAtomicOnStackFailure ==
    \A pr \in ProductRefs, ar \in ArtifactRefs, n \in Names, t \in TagInputs :
        LET r == provision_product(Registry, pr[1], pr[2], ar[1], ar[2], n, t,
                                   FALSE)
        IN /\ r.err # "none"
           /\ r.self.provisioned_products = provisioned_products
           /\ r.self.records = records
           /\ r.self.tagger = tagger

\* C3 happens: in a registry that holds a provisioned product, a
\* provision_product with tags finds its product and its artifact and fails
\* because its stack is not created.
C3_Witness ==
    /\ Len(provisioned_products) >= 1
    /\ \E pr \in ProductRefs, ar \in ArtifactRefs, n \in Names,
          t \in TagInputs :
          /\ t # {}
          /\ provision_product(Registry, pr[1], pr[2], ar[1], ar[2], n, t,
                               FALSE).err = "StackProvisionerError"

\* The records of a provisioned product, as positions in self.records.
RecordsOf(provisioned_product_id) ==
    {i \in DOMAIN records :
        records[i].provisioned_product_id = provisioned_product_id}

\* C4: describe_provisioned_product by the ProvisionedProductId of the record
\* a provision_product returned answers a detail whose LastRecordId is that
\* record's RecordId: right after the call, and after any other requests as
\* long as no later record is of the same provisioned product.
C4_DescribeAfterProvision ==
    /\ \A pr \in ProductRefs, ar \in ArtifactRefs, n \in Names,
          t \in TagInputs :
          LET r == provision_product(Registry, pr[1], pr[2], ar[1], ar[2], n,
                                     t, TRUE)
              d == describe_provisioned_product(
                       r.self, r.out.ProvisionedProductId, "")
          IN r.err = "none"
             => d.err = "none" /\ d.out.LastRecordId = r.out.RecordId
    /\ \A i \in DOMAIN records :
          (/\ records[i].record_type = "PROVISION_PRODUCT"
           /\ i = Max(RecordsOf(records[i].provisioned_product_id)))
          => LET d == describe_provisioned_product(
                          Registry, records[i].provisioned_product_id, "")
             IN d.err = "none" /\ d.out.LastRecordId = records[i].record_id

\* C4 happens: the registry holds a provisioned product whose last record is
\* the one its provision_product returned, after a later record of another
\* provisioned product, and a further provision_product succeeds.
C4_Witness ==
    /\ \E i, j \in DOMAIN records :
          /\ i < j
          /\ records[i].record_type = "PROVISION_PRODUCT"
          /\ i = Max(RecordsOf(records[i].provisioned_product_id))
    /\ \E pr \in ProductRefs, ar \in ArtifactRefs, n \in Names,
          t \in TagInputs :
          provision_product(Registry, pr[1], pr[2], ar[1], ar[2], n, t,
                            TRUE).err = "none"

\* C5: for every provisioned product,
\* get_last_record_for_provisioned_product returns a record of that
\* provisioned product, the one created last among them (records are stored
\* in the order of creation, and their ids are drawn in that order).
C5_LastRecordIsMostRecent ==
    \A p \in DOMAIN provisioned_products :
        LET id == provisioned_products[p].provisioned_product_id
            r == get_last_record_for_provisioned_product(Registry, id)
        IN /\ r.err = "none"
           /\ r.out.provisioned_product_id = id
           /\ r.out = records[Max(RecordsOf(id))]
           /\ \A i \in RecordsOf(id) : records[i].record_id <= r.out.record_id

\* C5 happens: a provisioned product has two records, a record of another
\* provisioned product lies between them, and
\* get_last_record_for_provisioned_product answers its termination record.
C5_Witness ==
    \E i, j, k \in DOMAIN records :
        /\ i < j /\ j < k
        /\ records[k].provisioned_product_id = records[i].provisioned_product_id
        /\ records[j].provisioned_product_id # records[i].provisioned_product_id
        /\ records[k].record_type = "TERMINATE_PROVISIONED_PRODUCT"
        /\ get_last_record_for_provisioned_product(
               Registry, records[i].provisioned_product_id).out = records[k]

\* C6: after a terminate_provisioned_product that succeeds, the provisioned
\* product is stored and is described, by its id and by its name, with Status
\* "AVAILABLE" and the RecordId of the termination record as LastRecordId.
C6_TerminatedStillDescribed ==
    \A id \in ProvisionedIds :
        LET r == terminate_provisioned_product(Registry, id)
            byId == describe_provisioned_product(r.self, id, "")
            byName == describe_provisioned_product(
                          r.self, 0, r.out.ProvisionedProductName)
        IN r.err = "none"
           => /\ Len(r.self.provisioned_products) = Len(provisioned_products)
              /\ byId.err = "none"
              /\ byId.out.Id = id
              /\ byId.out.Status = "AVAILABLE"
              /\ byId.out.LastRecordId = r.out.RecordId
              /\ byName.err = "none"
              /\ byName.out.Id = id
              /\ byName.out.Status = "AVAILABLE"
              /\ byName.out.LastRecordId = r.out.RecordId

\* The positions of the portfolios that have the product linked.
PortfoliosLinking(product_id) ==
    {i \in DOMAIN portfolios : has_product(portfolios[i], product_id)}

\* C7: list_launch_paths returns one entry for every portfolio that has the
\* product linked, and no entry of any other portfolio.
C7_OneEntryPerLinkedPortfolio ==
    \A id \in ProductIds \ {0} :
        LET r == list_launch_paths(Registry, id)
            linked == PortfoliosLinking(id)
        IN /\ r.err = "none"
           /\ \A i \in linked :
                 Cardinality({k \in DOMAIN r.out :
                     r.out[k].Id = portfolios[i].launch_path}) = 1
           /\ \A k \in DOMAIN r.out :
                 \E i \in linked : r.out[k].Id = portfolios[i].launch_path

\* The constraints stored for a pair, as positions in self.constraints.
ConstraintsOf(product_id, portfolio_id) ==
    {i \in DOMAIN constraints :
        /\ constraints[i].product_id = product_id
        /\ constraints[i].portfolio_id = portfolio_id}

\* C8, as claimed: every entry of list_launch_paths has at most one constraint
\* summary, and has one only if a LAUNCH constraint is stored for the product
\* (the one the request resolves to) and the entry's portfolio.
C8_SummaryOnlyIfLaunchConstraint ==
    \A id \in ProductIds :
        LET r == list_launch_paths(Registry, id)
            product == products[_get_product(Registry, id, "")]
        IN r.err = "none"
           => \A k \in DOMAIN r.out :
                 /\ Len(r.out[k].ConstraintSummaries) <= 1
                 /\ Len(r.out[k].ConstraintSummaries) = 1
                    => \E i \in DOMAIN portfolios :
                          /\ portfolios[i].launch_path = r.out[k].Id
                          /\ \E c \in ConstraintsOf(product.product_id,
                                           portfolios[i].portfolio_id) :
                                constraints[c].constraint_type = "LAUNCH"

\* C8, amended: every entry of list_launch_paths has at most one constraint
\* summary, and has one only if a constraint, of whatever type, is stored for
\* the product (the one the request resolves to) and the entry's portfolio,
\* however many constraints are stored for the pair.
C8_SummaryOnlyIfConstraint ==
    \A id \in ProductIds :
        LET r == list_launch_paths(Registry, id)
            product == products[_get_product(Registry, id, "")]
        IN r.err = "none"
           => \A k \in DOMAIN r.out :
                 /\ Len(r.out[k].ConstraintSummaries) <= 1
                 /\ Len(r.out[k].ConstraintSummaries) = 1
                    => \E i \in DOMAIN portfolios :
                          /\ portfolios[i].launch_path = r.out[k].Id
                          /\ ConstraintsOf(product.product_id,
                                           portfolios[i].portfolio_id) # {}

\* C8 happens: two constraints, of different types, are stored for a product
\* and a portfolio that has it linked, and list_launch_paths answers the
\* portfolio's entry with one constraint summary, of the first of them.
C8_Witness ==
    \E id \in ProductIds \ {0}, i \in DOMAIN portfolios :
        LET r == list_launch_paths(Registry, id)
            cons == ConstraintsOf(id, portfolios[i].portfolio_id)
        IN /\ has_product(portfolios[i], id)
           /\ Cardinality(cons) = 2
           /\ \E c, d \in cons :
                 constraints[c].constraint_type # constraints[d].constraint_type
           /\ r.err = "none"
           /\ r.out[i].ConstraintSummaries =
                  <<to_summary_json(constraints[Min(cons)])>>

\* How many times product_id is in the portfolio's product_ids.
Linked(portfolio, product_id) ==
    Cardinality({i \in DOMAIN portfolio.product_ids :
                    portfolio.product_ids[i] = product_id})

\* C9: for a stored product and a stored portfolio,
\* associate_product_with_portfolio called twice succeeds twice, leaves the
\* product id once in the portfolio's product_ids, and the second call leaves
\* the registry as the first left it.
C9_AssociateIdempotent ==
    \A pr \in ProductIds \ {0}, pf \in PortfolioIds \ {0} :
        LET r1 == associate_product_with_portfolio(Registry, pr, pf)
            r2 == associate_product_with_portfolio(r1.self, pr, pf)
            port == _get_portfolio(Registry, pf, "")
        IN /\ r1.err = "none"
           /\ r2.err = "none"
           /\ Linked(r1.self.portfolios[port], pr) = 1
           /\ Linked(r2.self.portfolios[port], pr) = 1
           /\ r2.self = r1.self

\* C9 happens: a portfolio has one product linked, and the association of a
\* second product with it adds a link, and its repetition adds none.
C9_Witness ==
    \E pr \in ProductIds \ {0}, pf \in PortfolioIds \ {0} :
        LET r1 == associate_product_with_portfolio(Registry, pr, pf)
            port == _get_portfolio(Registry, pf, "")
        IN /\ Len(portfolios[port].product_ids) = 1
           /\ Len(r1.self.portfolios[port].product_ids) = 2
           /\ associate_product_with_portfolio(r1.self, pr, pf).self = r1.self

\* C10: search_products with a filter on a field other than Owner and
\* ProductType raises FilterNotImplementedError naming that field.
C10_UnsupportedFilterRejected ==
    \A fs \in Filters :
        LET r == search_products(Registry, fs)
            unsupported == {k \in DOMAIN fs :
                               fs[k].field \notin {"Owner", "ProductType"}}
        IN unsupported # {}
           => /\ r.err = "FilterNotImplementedError"
              /\ r.out = fs[Min(unsupported)].field

\* The exceptions of the NotFound kind that exceptions.py defines: the
\* subclasses of ResourceNotFoundException.
NotFound == {"ProductNotFound", "PortfolioNotFound"}

\* The exceptions models.py imports from exceptions.py and raises
\* (_get_provisioned_product, describe_record) that exceptions.py does not
\* define.  The model describes the backend with classes of these names
\* supplied; that they are of the NotFound kind is the specification's word.
ImportedNotFound == {"ProvisionedProductNotFound", "RecordNotFound"}

\* C11: a provision_product that finds its product and none of the product's
\* provisioning artifacts, by the id or by the name, raises an exception of
\* the NotFound kind and leaves the registry as it was.
C11_UnknownArtifactNotFound ==
    \A pr \in ProductRefs, ar \in ArtifactRefs, n \in Names, t \in TagInputs,
       ok \in BOOLEAN :
        LET prod == _get_product(Registry, pr[1], pr[2])
            r == provision_product(Registry, pr[1], pr[2], ar[1], ar[2], n, t,
                                   ok)
        IN (/\ prod # 0
            /\ get_provisioning_artifact(products[prod], ar[1], ar[2]) = 0)
           => /\ r.err \in NotFound \cup ImportedNotFound
              /\ r.self = Registry

\* C12: a create_product with a name not in use whose Info holds no
\* LoadTemplateFromURL returns, and stores the product with one provisioning
\* artifact, of an empty template.
C12_NoUrlStoresEmptyTemplate ==
    \A n \in Names, o \in Owners, ty \in ProductTypes, t \in TagInputs,
       an \in ArtifactNames :
        ProductsNamed(n) = {}
        => LET r == create_product(Registry, n, o, ty, t, an, "no_url")
               stored == r.self.products[Len(r.self.products)]
           IN /\ r.err = "none"
              /\ Len(r.self.products) = Len(products) + 1
              /\ stored.name = n
              /\ Len(stored.provisioning_artifacts) = 1
              /\ stored.provisioning_artifacts[1].template = ""

\* C13: terminate_provisioned_product with an id that is not stored raises
\* an exception of the NotFound kind and leaves the records and the
\* provisioned products, their pointers to records included, as they were.
C13_TerminateUnknownNotFound ==
    LET r == terminate_provisioned_product(Registry, 0)
    IN /\ r.err \in NotFound \cup ImportedNotFound
       /\ r.self.records = records
       /\ r.self.provisioned_products = provisioned_products

\* C14: no two stored portfolios have the same display name.
C14_PortfolioNamesUnique ==
    \A i, j \in DOMAIN portfolios :
        portfolios[i].display_name = portfolios[j].display_name => i = j

\* C15: no two stored products have the same name.
C15_ProductNamesUnique ==
    \A i, j \in DOMAIN products : products[i].name = products[j].name => i = j

\* C16: no two stored provisioned products have the same name.
C16_ProvisionedNamesUnique ==
    \A i, j \in DOMAIN provisioned_products :
        provisioned_products[i].name = provisioned_products[j].name => i = j

\* C17: a create_product that fails because the template is not fetched
\* leaves the products and the tag store as they were.
C17_TemplateFailureLeavesNoState ==
    \A n \in Names, o \in Owners, ty \in ProductTypes, t \in TagInputs,
       an \in ArtifactNames :
        ProductsNamed(n) = {}
        => LET r == create_product(Registry, n, o, ty, t, an, "url_fails")
           IN /\ r.err # "none"
              /\ r.self.products = products
              /\ r.self.tagger = tagger

\* C18: a lookup by an id that is not stored, with no name, finds nothing,
\* whatever the names of the stored entities; and
\* associate_product_with_portfolio with such a product id or such a
\* portfolio id raises an exception of the NotFound kind and links nothing.
C18_UnknownIdNotFound ==
    /\ _get_product(Registry, 0, "") = 0
    /\ _get_portfolio(Registry, 0, "") = 0
    /\ _get_provisioned_product(Registry, 0, "") = 0
    /\ \A pr \in ProductIds, pf \in PortfolioIds :
          (pr = 0 \/ pf = 0)
          => LET r == associate_product_with_portfolio(Registry, pr, pf)
             IN r.err \in NotFound /\ r.self = Registry

\* The response leaves the records as they were.
RecordsKept(r) == r.self.records = records

\* The response leaves the records as they were and one record more, of that
\* type, after them.
RecordAppended(r, record_type) ==
    /\ Len(r.self.records) = Len(records) + 1
    /\ SubSeq(r.self.records, 1, Len(records)) = records
    /\ r.self.records[Len(r.self.records)].record_type = record_type

\* C19: a provision_product that returns leaves the records with one
\* PROVISION_PRODUCT record more at the end, a terminate_provisioned_product
\* that returns with one TERMINATE_PROVISIONED_PRODUCT record more at the
\* end, and every other request, and every request that fails, leaves the
\* records as they were.
C19_RecordsAppendOnly ==
    /\ \A pr \in ProductRefs, ar \in ArtifactRefs, n \in Names,
          t \in TagInputs, ok \in BOOLEAN :
          LET r == provision_product(Registry, pr[1], pr[2], ar[1], ar[2], n,
                                     t, ok)
          IN IF r.err = "none" THEN RecordAppended(r, "PROVISION_PRODUCT")
             ELSE RecordsKept(r)
    /\ \A id \in ProvisionedIds :
          LET r == terminate_provisioned_product(Registry, id)
          IN IF r.err = "none"
             THEN RecordAppended(r, "TERMINATE_PROVISIONED_PRODUCT")
             ELSE RecordsKept(r)
    /\ \A n \in Names, t \in TagInputs :
          RecordsKept(create_portfolio(Registry, n, t))
    /\ \A n \in Names, o \in Owners, ty \in ProductTypes, t \in TagInputs,
          an \in ArtifactNames, info \in InfoKinds :
          RecordsKept(create_product(Registry, n, o, ty, t, an, info))
    /\ \A pf \in PortfolioIds, pr \in ProductIds, ty \in ConstraintTypes :
          RecordsKept(create_constraint(Registry, pf, pr, ty))
    /\ \A pr \in ProductIds, pf \in PortfolioIds :
          RecordsKept(associate_product_with_portfolio(Registry, pr, pf))
    /\ \A pf \in PortfolioIds, n \in Names :
          RecordsKept(update_portfolio(Registry, pf, n))
    /\ \A pr \in ProductIds, n \in Names :
          RecordsKept(update_product(Registry, pr, n))
    /\ \A arn \in ResourceArns, t \in ResourceTags :
          RecordsKept(Return(tag_resource(Registry, arn, t), <<>>))

\* C19 happens: the records hold a provisioning record and, after it, a
\* termination record, and both a provision_product and a
\* terminate_provisioned_product return with one record more.
C19_Witness ==
    /\ \E i, j \in DOMAIN records :
          /\ i < j
          /\ records[i].record_type = "PROVISION_PRODUCT"
          /\ records[j].record_type = "TERMINATE_PROVISIONED_PRODUCT"
    /\ \E id \in ProvisionedIds :
          LET r == terminate_provisioned_product(Registry, id)
          IN r.err = "none" /\ Len(r.self.records) = Len(records) + 1
    /\ \E pr \in ProductRefs, ar \in ArtifactRefs, n \in Names,
          t \in TagInputs :
          LET r == provision_product(Registry, pr[1], pr[2], ar[1], ar[2], n,
                                     t, TRUE)
          IN r.err = "none" /\ Len(r.self.records) = Len(records) + 1

\* C20: for every stored provisioned product, last_record_id,
\* last_provisioning_record_id and last_successful_provisioning_record_id are
\* equal and are the id of a stored record of that provisioned product, the
\* one get_last_record_for_provisioned_product returns for it.
C20_PointersAtLastRecord ==
    \A p \in DOMAIN provisioned_products :
        LET pp == provisioned_products[p]
            r == get_last_record_for_provisioned_product(
                     Registry, pp.provisioned_product_id)
        IN /\ pp.last_provisioning_record_id = pp.last_record_id
           /\ pp.last_successful_provisioning_record_id = pp.last_record_id
           /\ \E i \in DOMAIN records :
                 /\ records[i].record_id = pp.last_record_id
                 /\ records[i].provisioned_product_id =
                        pp.provisioned_product_id
                 /\ r.err = "none"
                 /\ r.out = records[i]

\* C20 happens: a provisioned product has been terminated after another one
\* was provisioned, and it points at its termination record.
C20_Witness ==
    \E p, q \in DOMAIN provisioned_products, i, j, k \in DOMAIN records :
        /\ p # q
        /\ i < j /\ j < k
        /\ records[i].provisioned_product_id =
               provisioned_products[p].provisioned_product_id
        /\ records[j].provisioned_product_id =
               provisioned_products[q].provisioned_product_id
        /\ records[k].record_type = "TERMINATE_PROVISIONED_PRODUCT"
        /\ provisioned_products[p].last_record_id = records[k].record_id
        /\ provisioned_products[q].last_record_id = records[j].record_id
====
